---- MODULE Spec2Model ----
(***************************************************************************)
(* analyze_css_classes.py: CSS class extraction with @@include resolution. *)
(*                                                                         *)
(* A project tree is a set of files.  The text of a file is modelled by    *)
(* what the two regular expressions of the program find in it: the class   *)
(* tokens of its class="..." attributes in document order, and the targets *)
(* of its @@include(...) directives in document order.  Paths are          *)
(* sequences of components; every file of the model lives in the project   *)
(* root.  The recursion of resolve_includes_detailed is modelled by an     *)
(* explicit call stack, one frame per active call.                         *)
(***************************************************************************)
EXTENDS Integers, Sequences, FiniteSets, TLC

\* Bound of the model: @@include directives written in the whole project tree.
MaxIncludes == 3

\* The class names and file names of the model, each in the order Python's
\* sorted() gives them (lexicographic).
ClassOrder == <<"btn", "hero">>
NameOrder == <<"about.html", "index.html", "nav.html">>

\* The class tokens a file of the model can hold, in document order: none,
\* one, or several with a repetition and out of sorted order.
ClassTexts == {<<>>, <<"hero">>, <<"hero", "btn", "hero">>}

Range(s) == {s[k] : k \in DOMAIN s}
Classes == Range(ClassOrder)
Names == Range(NameOrder)
Status == {"ok", "unreadable", "missing"}

\* os.getcwd(): the directory main scans, the base of every relative path.
project_root == <<"proj">>
AbsPathOf(name) == Append(project_root, name)
AbsPaths == {AbsPathOf(n) : n \in Names}

SeqsUpTo(S, n) == UNION {[1..k -> S] : k \in 0..n}

VARIABLES
    fs,                 \* the project tree: path -> [status, content]
    pc,                 \* position of main
    html_files,         \* main: the discovered files, sorted
    file_index,         \* main: index of the file being analysed (enumerate)
    stack,              \* active calls of resolve_includes_detailed
    processed_files,    \* the visited set shared by one top-level call
    results,            \* main: html_file -> [direct, total, includes]
    all_class_sources,  \* main: class -> list of relative paths
    report,             \* the structured report written at the end
    opens,              \* open() calls of the resolver in this top-level call
    warnings,           \* "Include file not found" lines printed
    errors              \* "Error reading" lines printed

vars == <<fs, pc, html_files, file_index, stack, processed_files, results,
          all_class_sources, report, opens, warnings, errors>>

----------------------------------------------------------------------------
\* Paths

\* os.path.normpath on a component sequence: "." components are dropped.
os_path_normpath(p) == SelectSeq(p, LAMBDA c : c # ".")
\* os.path.abspath of a path that is already absolute: its normal form.
os_path_abspath(p) == os_path_normpath(p)
os_path_dirname(p) == SubSeq(p, 1, Len(p) - 1)
os_path_join(dir, name) == Append(dir, name)
\* os.path.relpath(p, base) for a path below base: the components after base.
os_path_relpath(p, base) == SubSeq(p, Len(base) + 1, Len(p))
os_path_exists(p) == p \in DOMAIN fs /\ fs[p].status # "missing"
Readable(p) == p \in DOMAIN fs /\ fs[p].status = "ok"

----------------------------------------------------------------------------
\* Extractors

\* "if x not in acc: acc.append(x)" for every x of s, in order.
RECURSIVE AppendUnique(_, _)
AppendUnique(acc, s) ==
    IF s = <<>> THEN acc
    ELSE AppendUnique(IF Head(s) \in Range(acc) THEN acc ELSE Append(acc, Head(s)),
                      Tail(s))

ClassRank(c) == CHOOSE k \in DOMAIN ClassOrder : ClassOrder[k] = c
\* sorted() on a list of class names.
Sorted(s) == SortSeq(s, LAMBDA x, y : ClassRank(x) < ClassRank(y))

\* Faulty variant: the "cls not in classes" test is dropped.
extract_classes_keep_duplicates(content) == Sorted(content.class_tokens)

extract_classes_from_html_simple(content) ==
    Sorted(AppendUnique(<<>>, content.class_tokens))

extract_includes_from_html(content) ==
    AppendUnique(<<>>, content.include_targets)

----------------------------------------------------------------------------
\* Dictionaries of class sources (class -> list of relative paths)

EmptyDict == [c \in {} |-> <<>>]
Get(d, c) == IF c \in DOMAIN d THEN d[c] ELSE <<>>

\* "for cls in direct_classes: class_sources[cls].append(rel_path)"
DirectSources(direct_classes, rel_path) ==
    [c \in Range(direct_classes) |-> <<rel_path>>]

\* "for cls, sources in src.items(): dst[cls].extend(sources)"
ExtendSources(dst, src) ==
    [c \in DOMAIN dst \cup DOMAIN src |-> Get(dst, c) \o Get(src, c)]

----------------------------------------------------------------------------
\* resolve_includes_detailed

EmptyResult == [direct |-> <<>>, total |-> <<>>, sources |-> EmptyDict]

\* A call that returns "[], [], {}" (lines 67 and 75).
EmptyReturnFrame(file_path) ==
    [file_path |-> file_path, state |-> "ret", direct_classes |-> <<>>,
     includes |-> <<>>, all_classes |-> <<>>, class_sources |-> EmptyDict,
     idx |-> 1]

\* The frame of a call after the file was read: lines 77-92.
LoopFrame(file_path) ==
    LET content == fs[file_path].content
        direct_classes == extract_classes_from_html_simple(content)
        rel_path == os_path_relpath(file_path, project_root)
    IN  [file_path |-> file_path, state |-> "loop",
         direct_classes |-> direct_classes,
         includes |-> extract_includes_from_html(content),
         all_classes |-> direct_classes,
         class_sources |-> DirectSources(direct_classes, rel_path),
         idx |-> 1]

Top == stack[Len(stack)]
SetTop(f) == [stack EXCEPT ![Len(stack)] = f]
Pop == SubSeq(stack, 1, Len(stack) - 1)

\* The recursion depth the model allows; the program stays below it.
MaxDepth == Len(NameOrder) + 1

\* Faulty variant: the visited test is dropped.
NeverProcessed(abs_path, processed) == FALSE

\* Line 66: "abs_path in processed_files"
IsProcessed(abs_path, processed) == abs_path \in processed

\* Faulty variant: the path is not recorded.
ForgetProcessed(processed, abs_path) == processed

\* Line 68: "processed_files.add(abs_path)"
MarkProcessed(processed, abs_path) == processed \cup {abs_path}

\* Faulty variant: a mutable default argument, shared by all top-level calls.
SharedDefaultProcessed(previous) == previous

\* Lines 61-62: "if processed_files is None: processed_files = set()"
DefaultProcessed(previous) == {}

\* Faulty variant: the exception of open() is not caught.
TryReadUncaught(file_path) == IF Readable(file_path) THEN "read" ELSE "raised"

\* Lines 70-75: the try block around open() and read().
TryRead(file_path) == IF Readable(file_path) THEN "read" ELSE "caught"

\* Lines 61-75: how a call on file_path begins, given the visited set.
Enter(file_path, processed) ==
    LET abs_path == os_path_abspath(file_path)
    IN  IF IsProcessed(abs_path, processed)
        THEN [kind |-> "visited", processed |-> processed]
        ELSE [kind |-> TryRead(file_path),
              processed |-> MarkProcessed(processed, abs_path)]

\* Lines 96-102: the path the current include target of a frame names.
IncludePath(frame) ==
    os_path_normpath(os_path_join(os_path_dirname(frame.file_path),
                                  frame.includes[frame.idx]))

\* A call is in its loop over the includes, at an include it has not done.
InLoop ==
    /\ stack # <<>>
    /\ Top.state = "loop"
    /\ Top.idx <= Len(Top.includes)

\* Faulty variant: the first element of the returned tuple is taken.
IncludeClassesDirect(ret) == ret.direct

\* Line 105: "_, include_classes, include_sources = ..."
IncludeClasses(ret) == ret.total

\* Faulty variant: the classes of an include are attributed to the including file.
MergeSourcesToIncluder(frame, ret) ==
    ExtendSources(frame.class_sources,
                  [c \in Range(ret.total) |->
                      <<os_path_relpath(frame.file_path, project_root)>>])

\* Lines 112-114.
MergeSources(frame, ret) == ExtendSources(frame.class_sources, ret.sources)

\* Lines 105-114: the frame of the caller after a recursive call returned ret.
Merged(caller, ret) ==
    [caller EXCEPT !.all_classes = AppendUnique(@, IncludeClasses(ret)),
                   !.class_sources = MergeSources(caller, ret),
                   !.idx = @ + 1]

\* Faulty variant: a missing include target ends the loop over the includes.
BreakOnMissing ==
    /\ InLoop
    /\ ~os_path_exists(IncludePath(Top))
    /\ warnings' = warnings \cup {<<Top.file_path, Top.includes[Top.idx]>>}
    /\ stack' = SetTop([Top EXCEPT !.idx = Len(Top.includes) + 1])
    /\ UNCHANGED <<fs, pc, html_files, file_index, processed_files, results,
                   all_class_sources, report, opens, errors>>

\* Lines 104, 115-116: the include target does not exist.
SkipMissing ==
    /\ InLoop
    /\ ~os_path_exists(IncludePath(Top))
    /\ warnings' = warnings \cup {<<Top.file_path, Top.includes[Top.idx]>>}
    /\ stack' = SetTop([Top EXCEPT !.idx = @ + 1])
    /\ UNCHANGED <<fs, pc, html_files, file_index, processed_files, results,
                   all_class_sources, report, opens, errors>>

\* Lines 104-105, 61-67: the include target was visited before; the call
\* returns empty results at once.
IncludeVisited ==
    /\ InLoop
    /\ os_path_exists(IncludePath(Top))
    /\ Enter(IncludePath(Top), processed_files).kind = "visited"
    /\ stack' = SetTop(Merged(Top, EmptyResult))
    /\ UNCHANGED <<fs, pc, html_files, file_index, processed_files, results,
                   all_class_sources, report, opens, warnings, errors>>

\* Lines 104-105, 61-75: the include target cannot be read; the call marks
\* it visited, prints the error and returns empty results.  An exception
\* that is not caught unwinds every frame and ends main.
IncludeReadError ==
    /\ InLoop
    /\ os_path_exists(IncludePath(Top))
    /\ LET e == Enter(IncludePath(Top), processed_files)
       IN  /\ e.kind \in {"caught", "raised"}
           /\ processed_files' = e.processed
           /\ opens' = [opens EXCEPT ![IncludePath(Top)] = @ + 1]
           /\ IF e.kind = "caught"
              THEN /\ errors' = errors \cup {IncludePath(Top)}
                   /\ stack' = SetTop(Merged(Top, EmptyResult))
                   /\ pc' = pc
              ELSE /\ errors' = errors
                   /\ stack' = <<>>
                   /\ pc' = "crashed"
    /\ UNCHANGED <<fs, html_files, file_index, results, all_class_sources,
                   report, warnings>>

\* Lines 104-105, 61-92: the recursive call for an include target that is
\* read: a new frame.
IncludeRead ==
    /\ InLoop
    /\ os_path_exists(IncludePath(Top))
    /\ Len(stack) < MaxDepth
    /\ LET e == Enter(IncludePath(Top), processed_files)
       IN  /\ e.kind = "read"
           /\ processed_files' = e.processed
           /\ opens' = [opens EXCEPT ![IncludePath(Top)] = @ + 1]
           /\ stack' = Append(stack, LoopFrame(IncludePath(Top)))
    /\ UNCHANGED <<fs, pc, html_files, file_index, results, all_class_sources,
                   report, warnings, errors>>

\* The top frame has reached one of its return statements.
Returning ==
    /\ stack # <<>>
    /\ \/ Top.state = "ret"
       \/ Top.state = "loop" /\ Top.idx > Len(Top.includes)

\* Faulty variant: all_classes is the same list as direct_classes (no copy).
FrameResultAliased(frame) ==
    [direct |-> frame.all_classes, total |-> Sorted(frame.all_classes),
     sources |-> frame.class_sources]

\* Line 118 (and the empty returns of lines 67 and 75).
FrameResult(frame) ==
    [direct |-> frame.direct_classes, total |-> Sorted(frame.all_classes),
     sources |-> frame.class_sources]

\* Lines 118, 105-114: a recursive call returns into the loop of its caller.
ReturnToCaller ==
    /\ Returning
    /\ Len(stack) >= 2
    /\ stack' = [Pop EXCEPT ![Len(stack) - 1] =
                    Merged(stack[Len(stack) - 1], FrameResult(Top))]
    /\ UNCHANGED <<fs, pc, html_files, file_index, processed_files, results,
                   all_class_sources, report, opens, warnings, errors>>

----------------------------------------------------------------------------
\* find_html_files and main

\* os.walk lists the files that exist; every name of the model ends in .html.
find_html_files ==
    SelectSeq([k \in DOMAIN NameOrder |-> AbsPathOf(NameOrder[k])],
              LAMBDA p : os_path_exists(p))

\* Lines 315-321.
FindHtmlFiles ==
    /\ pc = "start"
    /\ html_files' = find_html_files
    /\ file_index' = 1
    /\ pc' = IF find_html_files = <<>> THEN "done" ELSE "analyze"
    /\ UNCHANGED <<fs, stack, processed_files, results, all_class_sources,
                   report, opens, warnings, errors>>

\* Lines 331, 61-92: the top-level call for the next discovered file, with
\* no visited set passed.
CallTopLevel ==
    /\ pc = "analyze"
    /\ stack = <<>>
    /\ file_index <= Len(html_files)
    /\ LET html_file == html_files[file_index]
           e == Enter(html_file, DefaultProcessed(processed_files))
       IN  /\ processed_files' = e.processed
           /\ opens' = [p \in AbsPaths |->
                          IF p = html_file /\ e.kind # "visited" THEN 1 ELSE 0]
           /\ errors' = IF e.kind = "caught" THEN errors \cup {html_file}
                                             ELSE errors
           /\ stack' = IF e.kind = "read" THEN <<LoopFrame(html_file)>>
                       ELSE IF e.kind = "raised" THEN <<>>
                       ELSE <<EmptyReturnFrame(html_file)>>
           /\ pc' = IF e.kind = "raised" THEN "crashed" ELSE pc
    /\ UNCHANGED <<fs, html_files, file_index, results, all_class_sources,
                   report, warnings>>

\* Lines 334-339: main reads the file again for its include list.
MainIncludes(html_file) ==
    IF Readable(html_file)
    THEN extract_includes_from_html(fs[html_file].content)
    ELSE <<>>

\* Lines 331-349: the top-level call returns and main records the file.
ReturnToMain ==
    /\ Returning
    /\ Len(stack) = 1
    /\ pc = "analyze"
    /\ LET ret == FrameResult(Top)
           html_file == html_files[file_index]
       IN  /\ results' =
                 [f \in DOMAIN results \cup {html_file} |->
                    IF f = html_file
                    THEN [direct |-> ret.direct, total |-> ret.total,
                          includes |-> MainIncludes(html_file)]
                    ELSE results[f]]
           /\ all_class_sources' = ExtendSources(all_class_sources, ret.sources)
    /\ stack' = <<>>
    /\ file_index' = file_index + 1
    /\ pc' = IF file_index = Len(html_files) THEN "dedupe" ELSE "analyze"
    /\ UNCHANGED <<fs, html_files, processed_files, report, opens, warnings,
                   errors>>

\* Lines 351-353: list(set(...)); the order of the list is unspecified, so
\* the deduplicated list is kept as the set of its elements.
RemoveDuplicates ==
    /\ pc = "dedupe"
    /\ all_class_sources' =
           [c \in DOMAIN all_class_sources |-> Range(all_class_sources[c])]
    /\ pc' = "report"
    /\ UNCHANGED <<fs, html_files, file_index, stack, processed_files, results,
                   report, opens, warnings, errors>>

----------------------------------------------------------------------------
\* save_detailed_report

\* sum(len(data[key]) for data in results.values()), over a list of files.
RECURSIVE SumLen(_, _, _)
SumLen(res, files, key) ==
    IF files = <<>> THEN 0
    ELSE Len(res[Head(files)][key]) + SumLen(res, Tail(files), key)

\* set(cls for data in results.values() for cls in data[key])
RECURSIVE AllOf(_, _, _)
AllOf(res, files, key) ==
    IF files = <<>> THEN {}
    ELSE Range(res[Head(files)][key]) \cup AllOf(res, Tail(files), key)

\* The keys of results, in insertion order.
ResultFiles(res) == SelectSeq(html_files, LAMBDA f : f \in DOMAIN res)

\* Faulty variant: total_direct_classes sums the total lists.
SummaryWrongKey(res) ==
    [total_files |-> Cardinality(DOMAIN res),
     total_direct_classes |-> SumLen(res, ResultFiles(res), "total"),
     total_classes_with_includes |-> SumLen(res, ResultFiles(res), "total"),
     unique_direct_classes |-> Cardinality(AllOf(res, ResultFiles(res), "direct")),
     unique_total_classes |-> Cardinality(AllOf(res, ResultFiles(res), "total"))]

\* Lines 227-233.
Summary(res) ==
    [total_files |-> Cardinality(DOMAIN res),
     total_direct_classes |-> SumLen(res, ResultFiles(res), "direct"),
     total_classes_with_includes |-> SumLen(res, ResultFiles(res), "total"),
     unique_direct_classes |-> Cardinality(AllOf(res, ResultFiles(res), "direct")),
     unique_total_classes |-> Cardinality(AllOf(res, ResultFiles(res), "total"))]

\* Lines 240-247: the record of one file, keyed by its relative path.
FileReport(file_data) ==
    [direct_classes |-> file_data.direct,
     total_classes |-> file_data.total,
     includes |-> file_data.includes,
     additional_from_includes |-> Len(file_data.total) - Len(file_data.direct)]

\* Lines 224-254.
SaveDetailedReport ==
    /\ pc = "report"
    /\ report' =
           [summary |-> Summary(results),
            files |-> [rel_path \in {os_path_relpath(f, project_root) :
                                       f \in DOMAIN results} |->
                         FileReport(results[CHOOSE f \in DOMAIN results :
                             os_path_relpath(f, project_root) = rel_path])],
            class_sources |-> all_class_sources]
    /\ pc' = "done"
    /\ UNCHANGED <<fs, html_files, file_index, stack, processed_files, results,
                   all_class_sources, opens, warnings, errors>>

----------------------------------------------------------------------------
\* The project trees of the model

\* The second components of the pairs of s whose first component is name.
RECURSIVE Written(_, _)
Written(s, name) ==
    IF s = <<>> THEN <<>>
    ELSE (IF Head(s)[1] = name THEN <<Head(s)[2]>> ELSE <<>>)
         \o Written(Tail(s), name)

ProjectTree(status, texts, directives) ==
    [p \in AbsPaths |->
        [status |-> status[p[Len(p)]],
         content |-> [class_tokens |-> IF status[p[Len(p)]] = "ok"
                                       THEN texts[p[Len(p)]] ELSE <<>>,
                      include_targets |-> Written(directives, p[Len(p)])]]]

OkNames(status) == {n \in Names : status[n] = "ok"}

\* Before main runs: nothing is discovered, analysed or printed.
MainNotStarted ==
    /\ pc = "start"
    /\ html_files = <<>>
    /\ file_index = 1
    /\ stack = <<>>
    /\ processed_files = {}
    /\ results = EmptyDict
    /\ all_class_sources = EmptyDict
    /\ report = EmptyDict
    /\ opens = [p \in AbsPaths |-> 0]
    /\ warnings = {}
    /\ errors = {}

\* Any project tree of the model.  A file that is missing or cannot be read
\* has no text.
Init ==
    /\ \E status \in [Names -> Status] :
         \E texts \in [OkNames(status) -> ClassTexts] :
           \E directives \in SeqsUpTo(OkNames(status) \X Names, MaxIncludes) :
             fs = ProjectTree(status, texts, directives)
    /\ MainNotStarted

\* Any include graph of the model, every readable file holding the same
\* class tokens: the control flow of the program does not read the classes.
InitGraphs ==
    /\ \E status \in [Names -> Status] :
         \E directives \in SeqsUpTo(OkNames(status) \X Names, MaxIncludes) :
           fs = ProjectTree(status,
                            [n \in OkNames(status) |-> <<"hero", "btn", "hero">>],
                            directives)
    /\ MainNotStarted

Next ==
    \/ FindHtmlFiles
    \/ CallTopLevel
    \/ SkipMissing
    \/ IncludeVisited
    \/ IncludeReadError
    \/ IncludeRead
    \/ ReturnToCaller
    \/ ReturnToMain
    \/ RemoveDuplicates
    \/ SaveDetailedReport

Spec == Init /\ [][Next]_vars

\* main is one sequential thread: a step that can be taken is taken.
FairSpec == InitGraphs /\ [][Next]_vars /\ WF_vars(Next)

----------------------------------------------------------------------------
\* What the project tree says, read off the tree itself

\* The classes the text of a file declares.
Declared(p) == IF Readable(p) THEN Range(fs[p].content.class_tokens) ELSE {}

\* The existing files the include directives of a readable file name.
Targets(p) ==
    IF Readable(p)
    THEN {q \in AbsPaths :
            /\ fs[q].status # "missing"
            /\ \E t \in Range(fs[p].content.include_targets) : q = AbsPathOf(t)}
    ELSE {}

RECURSIVE Closure(_)
Closure(S) ==
    LET T == S \cup UNION {Targets(p) : p \in S}
    IN  IF T = S THEN S ELSE Closure(T)

\* The files reachable from f by following include directives.
Reachable(f) == Closure({f})

ExpectedTotal(f) == UNION {Declared(p) : p \in Reachable(f)}

NoDuplicates(s) == \A j, k \in DOMAIN s : s[j] = s[k] => j = k

RelPathOf(p) == SubSeq(p, Len(project_root) + 1, Len(p))

\* The sources listed under a class in main's index: a list while the files
\* are analysed, the set of its elements after the duplicates are removed.
Listed(c) ==
    IF pc \in {"report", "done"} THEN all_class_sources[c]
    ELSE Range(all_class_sources[c])

Finished == pc = "done" /\ html_files # <<>>

----------------------------------------------------------------------------
C2_TotalIsUnionOfReachable ==
    \A f \in DOMAIN results :
        Readable(f) => Range(results[f].total) = ExpectedTotal(f)

\* A diamond: f includes b and c, b includes c, and c declares a class that
\* neither f nor b declares.
C2_Witness ==
    /\ Finished
    /\ \E f, b, c \in DOMAIN results :
         /\ Cardinality({f, b, c}) = 3
         /\ {b, c} \subseteq Targets(f)
         /\ c \in Targets(b)
         /\ Declared(c) \ (Declared(f) \cup Declared(b)) # {}
         /\ Range(results[f].total) = ExpectedTotal(f)

\* The file a listed source names declares the class.
DeclaresIn(rel_path, c) == c \in Declared(project_root \o rel_path)

\* C3: every path listed under a class, in the mapping of any active call
\* and in main's index, is the relative path of a file whose own text
\* declares the class; and at the end every file reachable from an analysed
\* file is listed under each class it declares.
C3_SourcesAreDeclaringFiles ==
    /\ \A k \in DOMAIN stack : \A c \in DOMAIN stack[k].class_sources :
         \A r \in Range(stack[k].class_sources[c]) : DeclaresIn(r, c)
    /\ \A c \in DOMAIN all_class_sources : \A r \in Listed(c) : DeclaresIn(r, c)
    /\ pc \in {"report", "done"} =>
         \A f \in DOMAIN results : \A p \in Reachable(f) : \A c \in Declared(p) :
            /\ c \in DOMAIN all_class_sources
            /\ RelPathOf(p) \in all_class_sources[c]

\* A includes B, only B declares btn: btn is in A's total and listed under
\* B alone.
C3_Witness ==
    /\ Finished
    /\ \E A, B \in DOMAIN results :
         /\ A # B
         /\ B \in Targets(A)
         /\ "btn" \in Declared(B)
         /\ \A p \in AbsPaths \ {B} : "btn" \notin Declared(p)
         /\ "btn" \in Range(results[A].total)
         /\ all_class_sources["btn"] = {RelPathOf(B)}

\* C4: the direct classes of a call, while its includes are processed and
\* when it is recorded, are the classes of the file's own text.
C4_DirectIsOwnText ==
    /\ \A f \in DOMAIN results : Range(results[f].direct) = Declared(f)
    /\ \A k \in DOMAIN stack :
         Range(stack[k].direct_classes) =
             (IF stack[k].state = "loop" THEN Declared(stack[k].file_path) ELSE {})

\* A recorded file whose total holds a class that its direct list lacks.
C4_Witness ==
    /\ Finished
    /\ \E f \in DOMAIN results :
         /\ results[f].direct # <<>>
         /\ Range(results[f].total) \ Range(results[f].direct) # {}

\* An include target that exists and is in the visited set.
AtVisitedInclude ==
    /\ InLoop
    /\ os_path_exists(IncludePath(Top))
    /\ os_path_abspath(IncludePath(Top)) \in processed_files

\* C5: within one top-level call no file is opened twice, and a call on a
\* visited path opens nothing and hands its caller nothing: the caller goes
\* on to its next include with its classes and sources as they were.
C5_EachFileReadOnce ==
    /\ [](\A p \in AbsPaths : opens[p] <= 1)
    /\ [][AtVisitedInclude =>
            /\ opens' = opens
            /\ processed_files' = processed_files
            /\ stack' = SetTop([Top EXCEPT !.idx = @ + 1])]_vars

\* The top-level call of f has done its includes b and c, where b also
\* includes c: c was reached twice and opened once.
C5_Witness ==
    /\ Len(stack) = 1
    /\ Top.state = "loop"
    /\ Top.idx = 3
    /\ LET f == Top.file_path
           b == AbsPathOf(Top.includes[1])
           c == AbsPathOf(Top.includes[2])
       IN  /\ Cardinality({f, b, c}) = 3
           /\ Readable(b) /\ Readable(c)
           /\ c \in Targets(b)
           /\ opens[c] = 1

\* An include target that does not exist.
AtMissingInclude ==
    /\ InLoop
    /\ ~os_path_exists(IncludePath(Top))

Positions(key) ==
    UNION {{<<f, k>> : k \in DOMAIN results[f][key]} : f \in DOMAIN results}

\* C7: the summary of the report counts the file records, the entries of
\* all direct lists, the entries of all total lists, and the distinct
\* classes of the direct lists and of the total lists.
C7_SummaryTotals ==
    Finished =>
        /\ report.summary.total_files = Cardinality(DOMAIN results)
        /\ report.summary.total_direct_classes = Cardinality(Positions("direct"))
        /\ report.summary.total_classes_with_includes =
               Cardinality(Positions("total"))
        /\ report.summary.unique_direct_classes =
               Cardinality(UNION {Range(results[f].direct) : f \in DOMAIN results})
        /\ report.summary.unique_total_classes =
               Cardinality(UNION {Range(results[f].total) : f \in DOMAIN results})

\* A report over three files where the five totals are pairwise different
\* where they can be.
C7_Witness ==
    /\ Finished
    /\ report.summary.total_files = 3
    /\ report.summary.total_direct_classes = 3
    /\ report.summary.total_classes_with_includes = 5
    /\ report.summary.unique_direct_classes = 2
    /\ report.summary.unique_total_classes = 2

\* C8: the visited set of a top-level call holds the files opened in that
\* call and nothing from the calls before it, all of them reachable from
\* its file; a fragment two analysed files include has its classes in the
\* total of both.
C8_FreshVisitedSetPerFile ==
    /\ stack # <<>> =>
         /\ processed_files = {p \in AbsPaths : opens[p] > 0}
         /\ processed_files \subseteq Reachable(html_files[file_index])
    /\ \A f, g \in DOMAIN results : \A x \in Targets(f) \cap Targets(g) :
         Declared(x) \subseteq Range(results[f].total) \cap Range(results[g].total)

\* Two analysed files include the same fragment, which alone declares btn.
C8_Witness ==
    /\ Finished
    /\ \E f, g, x \in DOMAIN results :
         /\ Cardinality({f, g, x}) = 3
         /\ x \in Targets(f) \cap Targets(g)
         /\ "btn" \in Declared(x) \ (Declared(f) \cup Declared(g))
         /\ "btn" \in Range(results[f].total) \cap Range(results[g].total)

\* C9: a failed read never ends the run; the file whose read failed is in
\* the visited set; an analysed file that cannot be read is recorded with
\* empty lists and is no source of any class; a file that includes it
\* keeps its own classes and those of its other includes; and main records
\* every discovered file in turn.
C9_ReadFailureIsContained ==
    /\ pc # "crashed"
    /\ \A p \in AbsPaths : opens[p] > 0 => p \in processed_files
    /\ \A f \in DOMAIN results :
         /\ ~Readable(f) =>
               results[f] = [direct |-> <<>>, total |-> <<>>, includes |-> <<>>]
         /\ \A x \in {f} \cup Targets(f) :
               Declared(x) \subseteq Range(results[f].total)
    /\ \A c \in DOMAIN all_class_sources : \A r \in Listed(c) :
         Readable(project_root \o r)
    /\ pc \in {"analyze", "dedupe", "report", "done"} =>
         DOMAIN results = {html_files[k] : k \in 1..(file_index - 1)}
    /\ pc \in {"dedupe", "report", "done"} => DOMAIN results = Range(html_files)

\* A file that cannot be read was analysed first and is included by a
\* later file together with a readable fragment.
C9_Witness ==
    /\ Finished
    /\ \E f, u, x \in DOMAIN results :
         /\ Cardinality({f, u, x}) = 3
         /\ {u, x} \subseteq Targets(f)
         /\ fs[u].status = "unreadable"
         /\ u \in errors
         /\ u = html_files[1]
         /\ results[f].direct # <<>>
         /\ Declared(x) \ Declared(f) # {}
         /\ Declared(x) \subseteq Range(results[f].total)

\* C10: the direct and total lists of every file record have no duplicates,
\* the direct classes are among the total classes, and the reported
\* additional_from_includes is the number of total classes that are not
\* direct classes.
C10_FileRecordLists ==
    /\ \A f \in DOMAIN results :
         /\ NoDuplicates(results[f].direct)
         /\ NoDuplicates(results[f].total)
         /\ Range(results[f].direct) \subseteq Range(results[f].total)
    /\ Finished =>
         /\ DOMAIN report.files = {RelPathOf(f) : f \in DOMAIN results}
         /\ \A f \in DOMAIN results :
              LET rec == report.files[RelPathOf(f)]
              IN  /\ rec.direct_classes = results[f].direct
                  /\ rec.total_classes = results[f].total
                  /\ rec.additional_from_includes >= 0
                  /\ rec.additional_from_includes =
                         Cardinality(Range(results[f].total)
                                         \ Range(results[f].direct))

\* A file whose text repeats a class, reported with one class of its own
\* and one more from an include.
C10_Witness ==
    /\ Finished
    /\ \E f, x \in DOMAIN results :
         /\ x \in Targets(f)
         /\ Len(fs[x].content.class_tokens) > Cardinality(Declared(x))
         /\ Len(results[f].direct) = 1
         /\ report.files[RelPathOf(f)].additional_from_includes = 1

====
